---- MODULE Spec2Model ----
(***************************************************************************)
(* Model of liver (src/source/lib.rs): watch() spawns a background thread  *)
(* running a Hotwatch file watcher and a WebSocket server, and runs a      *)
(* Rocket HTTP server on the main thread that serves static files and      *)
(* appends a reload script to HTML responses.                              *)
(*                                                                         *)
(* A file name is the sequence of its dot-separated parts                  *)
(* (index.html = <<"index", "html">>), a path is a sequence of file names, *)
(* an Option is <<>> (None) or <<v>> (Some(v)), a byte is a string.        *)
(***************************************************************************)
EXTENDS Integers, Sequences, FiniteSets, TLC

VARIABLES
  fs,               \* the filesystem: path -> entry
  envWsPort,        \* the WS_PORT environment variable (an Option)
  mainThread,       \* position of the thread that called watch()
  bgThread,         \* position of the thread spawned at lib.rs:70
  eventThread,      \* the context in which Hotwatch runs the handler of lib.rs:80-85
  new_path,         \* the path captured by the spawned closure (lib.rs:67)
  source,           \* the path managed by Rocket (lib.rs:94)
  boundAddr,        \* the address the WebSocket server listens on
  connected,        \* the open WebSocket connections
  nextConn,         \* the next connection to be accepted
  hook,             \* the connection whose `out` the registered handler holds
  inbox,            \* connection -> messages delivered to its client
  writes,           \* number of DebouncedEvent::Write events so far
  connectedAt,      \* connection -> value of writes when it was accepted
  startRootExists,  \* whether the source root was a directory when watch() was called
  events,           \* number of watcher events other than Write so far
  clientMsgs,       \* number of messages clients have sent so far
  request,          \* the last HTTP request (an Option of an Option of a path)
  response          \* the response to it

vars == <<fs, envWsPort, mainThread, bgThread, eventThread, new_path, source,
          boundAddr, connected, nextConn, hook, inbox, writes, connectedAt,
          startRootExists, events, clientMsgs, request, response>>

serverVars == <<mainThread, bgThread, eventThread, new_path, source, boundAddr,
                connected, nextConn, hook, inbox, writes, connectedAt,
                startRootExists, events, clientMsgs>>

counters == <<events, clientMsgs>>

----------------------------------------------------------------------------
(* Bounds *)

MaxConns == 2
MaxWrites == 2
MaxLen == 1
MaxEvents == 1
MaxMsgs == 1

Conns == 1 .. MaxConns
NoConn == 0

----------------------------------------------------------------------------
(* Files *)

IndexHtml == <<"index", "html">>
PageHTM == <<"page", "HTM">>
StyleCss == <<"style", "css">>
DataXyz == <<"data", "xyz">>
Docs == <<"docs">>
Nope == <<"nope", "html">>

\* The argument of watch().
WatchPath == <<"site">>

Byte == {"a"}

RECURSIVE SeqsUpTo(_, _)
SeqsUpTo(S, n) ==
  IF n = 0 THEN {<<>>}
  ELSE LET shorter == SeqsUpTo(S, n - 1)
       IN shorter \cup {Append(s, b) : s \in {t \in shorter : Len(t) = n - 1}, b \in S}

Contents == SeqsUpTo(Byte, MaxLen)

Missing == [kind |-> "missing", bytes |-> <<>>]
Denied == [kind |-> "denied", bytes |-> <<>>]
Dir == [kind |-> "dir", bytes |-> <<>>]
File(bytes) == [kind |-> "file", bytes |-> bytes]

Files == {File(b) : b \in Contents}

\* Paths relative to the root that the model populates.
TopFileNames == {PageHTM, StyleCss, DataXyz}
TopDirNames == {IndexHtml, Docs}
RelPaths == {<<n>> : n \in TopFileNames \cup TopDirNames}
              \cup {<<n, IndexHtml>> : n \in TopDirNames}

Path(rel) == <<WatchPath>> \o rel

AllPaths == {<<WatchPath>>} \cup {Path(rel) : rel \in RelPaths}

Parent(p) == SubSeq(p, 1, Len(p) - 1)

\* A filesystem a real directory tree can be: an entry exists only inside a
\* directory.
WellFormed(f) ==
  /\ f[<<WatchPath>>] \in {Missing, Dir}
  /\ \A n \in TopFileNames : f[Path(<<n>>)] \in {Missing, Denied} \cup Files
  /\ \A n \in TopDirNames : f[Path(<<n>>)] \in {Missing, Denied, Dir} \cup Files
  /\ \A n \in TopDirNames : f[Path(<<n, IndexHtml>>)] \in {Missing, Denied} \cup Files
  /\ \A p \in AllPaths \ {<<WatchPath>>} :
       f[p] # Missing => f[Parent(p)] = Dir

\* std::path::Path::is_dir
is_dir(f, p) == p \in DOMAIN f /\ f[p].kind = "dir"

\* std::fs::read: Some(bytes) or None on any error
read(f, p) ==
  IF p \in DOMAIN f /\ f[p].kind = "file" THEN <<f[p].bytes>> ELSE <<>>

\* std::path::Path::extension followed by unwrap_or("")
extension(p) ==
  LET name == p[Len(p)]
  IN IF Len(name) >= 2 /\ ~(Len(name) = 2 /\ name[1] = "")
     THEN name[Len(name)]
     ELSE ""

\* PathBuf::join
join(p, rel) == p \o rel

----------------------------------------------------------------------------
(* The reload script and the WebSocket address *)

Placeholder == "${WS_PORT}"

\* RELOAD_SCRIPT, cut at the placeholder.
RELOAD_SCRIPT ==
  << "<script>const socket = new WebSocket(\"ws://127.0.0.1:",
     Placeholder,
     "\"); ... if (event.data === 'Reload') { location.reload(); } ...</script>" >>

WS_PORT_DEFAULT == "8001"

\* str::replace on the pieces of the script
replace(s, from, to) == [i \in 1 .. Len(s) |-> IF s[i] = from THEN to ELSE s[i]]

\* env::var(..).unwrap_or_else(|_| default)
unwrap_or(opt, default) == IF opt = <<>> THEN default ELSE opt[1]

reload_script(env) == replace(RELOAD_SCRIPT, Placeholder, unwrap_or(env, WS_PORT_DEFAULT))

\* ws_url() ignoring the WS_PORT variable.
ws_url_default(env) == <<"127.0.0.1", WS_PORT_DEFAULT>>

\* ws_url(): lib.rs:102-107
ws_url(env) == <<"127.0.0.1", unwrap_or(env, WS_PORT_DEFAULT)>>

----------------------------------------------------------------------------
(* The static responder *)

\* ASCII lower-casing of the extensions the model uses.
to_lowercase(ext) ==
  CASE ext = "HTM" -> "htm"
    [] ext = "HTML" -> "html"
    [] ext = "CSS" -> "css"
    [] OTHER -> ext

\* rocket::http::ContentType::from_extension: Some(type) or None
from_extension(ext) ==
  LET e == to_lowercase(ext)
  IN CASE e \in {"html", "htm"} -> <<"text/html">>
       [] e = "css" -> <<"text/css">>
       [] e = "txt" -> <<"text/plain">>
       [] OTHER -> <<>>

HTML == "text/html"
Plain == "text/plain"

Ok(content_type, body) == [status |-> 200, content_type |-> content_type, body |-> body]
NotFound == [status |-> 404, content_type |-> "", body |-> <<>>]

\* The file a request is answered from. Without a request path it is
\* index.html in the source root (lib.rs:133); with one it is the joined
\* path, or its index.html when the joined path is a directory
\* (lib.rs:150-155).
resolve(path, src, f) ==
  IF path = <<>> THEN join(<<src>>, <<IndexHtml>>)
  ELSE LET joined == join(<<src>>, path[1])
       IN IF is_dir(f, joined) THEN join(joined, <<IndexHtml>>) ELSE joined

\* static_files(None, source) answering a failed read with a server error.
static_files_none_500(src, f, env) ==
  LET file == read(f, resolve(<<>>, src, f))
  IN IF file # <<>>
     THEN Ok(HTML, file[1] \o reload_script(env))
     ELSE [status |-> 500, content_type |-> "", body |-> <<>>]

\* static_files(None, source): lib.rs:130-146
static_files_none(src, f, env) ==
  LET file == read(f, resolve(<<>>, src, f))
  IN IF file # <<>>
     THEN Ok(HTML, file[1] \o reload_script(env))
     ELSE NotFound

\* static_files(Some(rel), source) appending the script whatever the type.
static_files_some_inject(rel, src, f, env) ==
  LET path == resolve(<<rel>>, src, f)
      file == read(f, path)
  IN IF file # <<>>
     THEN Ok(unwrap_or(from_extension(extension(path)), Plain),
             file[1] \o reload_script(env))
     ELSE NotFound

\* static_files(Some(rel), source) refusing an extension it does not know.
static_files_some_strict(rel, src, f, env) ==
  LET path == resolve(<<rel>>, src, f)
      file == read(f, path)
      known == from_extension(extension(path))
  IN IF file # <<>> /\ known # <<>>
     THEN Ok(known[1],
             IF known[1] = HTML THEN file[1] \o reload_script(env) ELSE file[1])
     ELSE NotFound

\* static_files(Some(rel), source): lib.rs:148-176
static_files_some(rel, src, f, env) ==
  LET path == resolve(<<rel>>, src, f)
      file == read(f, path)
  IN IF file # <<>>
     THEN LET content_type == unwrap_or(from_extension(extension(path)), Plain)
          IN Ok(content_type,
                IF content_type = HTML THEN file[1] \o reload_script(env) ELSE file[1])
     ELSE NotFound

static_files(path, src, f, env) ==
  IF path = <<>> THEN static_files_none(src, f, env)
  ELSE static_files_some(path[1], src, f, env)

\* The paths a request can carry: Rocket's <path..> is a non-empty sequence
\* of segments.
RequestPaths == RelPaths \cup {<<Nope>>, <<Docs, Nope>>}

NoRequest == <<>>
NoResponse == [status |-> 0, content_type |-> "", body |-> <<>>]

----------------------------------------------------------------------------
(* Initial states *)

EnvValues == {<<>>, <<"9000">>}

\* The site of the reference scenario: index.html, style.css and a docs
\* directory holding its own index.html.
SiteFS ==
  [p \in AllPaths |->
     CASE p = <<WatchPath>> -> Dir
       [] p = Path(<<IndexHtml>>) -> File(<<>>)
       [] p = Path(<<StyleCss>>) -> File(<<>>)
       [] p = Path(<<Docs>>) -> Dir
       [] p = Path(<<Docs, IndexHtml>>) -> File(<<>>)
       [] OTHER -> Missing]

\* No source root at all.
EmptyFS == [p \in AllPaths |-> Missing]

InitServer ==
  /\ mainThread = "start"
  /\ bgThread = "unspawned"
  /\ eventThread = "none"
  /\ new_path = <<>>
  /\ source = <<>>
  /\ boundAddr = <<>>
  /\ connected = {}
  /\ nextConn = 1
  /\ hook = NoConn
  /\ inbox = [c \in Conns |-> <<>>]
  /\ writes = 0
  /\ connectedAt = [c \in Conns |-> 0]
  /\ startRootExists = FALSE
  /\ events = 0
  /\ clientMsgs = 0
  /\ request = NoRequest
  /\ response = NoResponse

Init ==
  /\ fs \in {SiteFS, EmptyFS}
  /\ envWsPort \in EnvValues
  /\ InitServer

----------------------------------------------------------------------------
(* watch(): lib.rs:66-99 *)

\* The process runs until the thread that called watch() leaves it.
Alive == mainThread \in {"launching", "serving"}

BgPanicked == bgThread \in {"panicked_new", "panicked_listen", "panicked_watch"}

\* lib.rs:67-70: copy the path and spawn the background thread.
Watch ==
  /\ mainThread = "start"
  /\ mainThread' = "launching"
  /\ new_path' = <<WatchPath>>
  /\ bgThread' = "spawned"
  /\ startRootExists' = is_dir(fs, <<WatchPath>>)
  /\ UNCHANGED <<fs, envWsPort, eventThread, source, boundAddr, connected,
                 nextConn, hook, inbox, writes, connectedAt, request, response>>
  /\ UNCHANGED counters

\* Launch with Rocket managing another directory than the one watched.
Launch_other ==
  /\ mainThread = "launching"
  /\ \E bound \in BOOLEAN :
       IF bound
       THEN /\ mainThread' = "serving"
            /\ source' = << <<"public">> >>
       ELSE /\ mainThread' = "exited"
            /\ UNCHANGED source
  /\ UNCHANGED <<fs, envWsPort, bgThread, eventThread, new_path, boundAddr,
                 connected, nextConn, hook, inbox, writes, connectedAt,
                 startRootExists, request, response>>
  /\ UNCHANGED counters

\* lib.rs:93-98: Rocket::ignite().manage(..).mount(..).launch() blocks while
\* serving; when the HTTP port cannot be bound it returns and watch() ends.
Launch ==
  /\ mainThread = "launching"
  /\ \E bound \in BOOLEAN :
       IF bound
       THEN /\ mainThread' = "serving"
            /\ source' = <<WatchPath>>
       ELSE /\ mainThread' = "exited"
            /\ UNCHANGED source
  /\ UNCHANGED <<fs, envWsPort, bgThread, eventThread, new_path, boundAddr,
                 connected, nextConn, hook, inbox, writes, connectedAt,
                 startRootExists, request, response>>
  /\ UNCHANGED counters

\* lib.rs:71: Hotwatch::new().unwrap() in the spawned thread.
HotwatchNew ==
  /\ Alive
  /\ bgThread = "spawned"
  /\ \E ok \in BOOLEAN :
       IF ok
       THEN /\ bgThread' = "created"
            /\ eventThread' = "running"
       ELSE /\ bgThread' = "panicked_new"
            /\ UNCHANGED eventThread
  /\ UNCHANGED <<fs, envWsPort, mainThread, new_path, source, boundAddr,
                 connected, nextConn, hook, inbox, writes, connectedAt,
                 startRootExists, request, response>>
  /\ UNCHANGED counters

\* lib.rs:74 and 89: ws::listen(ws_url(), ..).unwrap() binds the address; a
\* bind error panics the spawned thread, which drops the watcher.
WsListen ==
  /\ Alive
  /\ bgThread = "created"
  /\ \E bound \in BOOLEAN :
       IF bound
       THEN /\ bgThread' = "listening"
            /\ boundAddr' = <<ws_url(envWsPort)>>
            /\ UNCHANGED eventThread
       ELSE /\ bgThread' = "panicked_listen"
            /\ eventThread' = "stopped"
            /\ UNCHANGED boundAddr
  /\ UNCHANGED <<fs, envWsPort, mainThread, new_path, source, connected,
                 nextConn, hook, inbox, writes, connectedAt, startRootExists,
                 request, response>>
  /\ UNCHANGED counters

----------------------------------------------------------------------------
(* The WebSocket factory closure and the Hotwatch handler: lib.rs:74-88 *)

exists(f, p) == p \in DOMAIN f /\ f[p].kind # "missing"

\* Registration that keeps the first handler of a path.
Register_first(old, c) == IF old = NoConn THEN c ELSE old

\* Hotwatch keeps one handler per watched path: watching the same path again
\* replaces the handler (lib.rs:76-78).
Register(old, c) == c

\* out.send("Reload") on an open connection: lib.rs:83
send(inb, c) == [inb EXCEPT ![c] = Append(@, "Reload")]

\* watcher.watch failing on a path that already has a handler.
WatchResults_once(f, p) ==
  IF exists(f, p) /\ hook = NoConn THEN {TRUE} ELSE {FALSE}

\* The possible results of watcher.watch(&new_path, ..): Ok when the path
\* exists, an error when it does not.
WatchResults(f, p) ==
  IF exists(f, p) THEN {TRUE} ELSE {FALSE}

\* Connect with the earlier writes replayed to the new connection.
Connect_replay ==
  /\ Alive
  /\ bgThread = "listening"
  /\ nextConn <= MaxConns
  /\ \E ok \in WatchResults(fs, <<new_path[1]>>) :
       IF ok
       THEN /\ hook' = Register(hook, nextConn)
            /\ connected' = connected \cup {nextConn}
            /\ inbox' = [inbox EXCEPT ![nextConn] = [i \in 1 .. writes |-> "Reload"]]
            /\ UNCHANGED <<bgThread, eventThread>>
       ELSE /\ bgThread' = "panicked_watch"
            /\ eventThread' = IF eventThread = "running" THEN "stopped" ELSE eventThread
            /\ hook' = NoConn
            /\ connected' = {}
            /\ UNCHANGED inbox
  /\ connectedAt' = [connectedAt EXCEPT ![nextConn] = writes]
  /\ nextConn' = nextConn + 1
  /\ UNCHANGED <<fs, envWsPort, mainThread, new_path, source, boundAddr,
                 writes, startRootExists, request, response>>
  /\ UNCHANGED counters

\* Connect with the panic of lib.rs:86 taking the whole process down.
Connect_abort ==
  /\ Alive
  /\ bgThread = "listening"
  /\ nextConn <= MaxConns
  /\ \E ok \in WatchResults(fs, <<new_path[1]>>) :
       IF ok
       THEN /\ hook' = Register(hook, nextConn)
            /\ connected' = connected \cup {nextConn}
            /\ UNCHANGED <<mainThread, bgThread, eventThread>>
       ELSE /\ bgThread' = "panicked_watch"
            /\ mainThread' = "exited"
            /\ eventThread' = IF eventThread = "running" THEN "stopped" ELSE eventThread
            /\ hook' = NoConn
            /\ connected' = {}
  /\ connectedAt' = [connectedAt EXCEPT ![nextConn] = writes]
  /\ nextConn' = nextConn + 1
  /\ UNCHANGED <<fs, envWsPort, new_path, source, boundAddr, inbox,
                 writes, startRootExists, request, response>>
  /\ UNCHANGED counters

\* lib.rs:74-88: a connection is accepted and the factory closure runs; the
\* unwrap of lib.rs:86 panics the spawned thread when the watch fails, which
\* drops the WebSocket server and the watcher.
Connect ==
  /\ Alive
  /\ bgThread = "listening"
  /\ nextConn <= MaxConns
  /\ \E ok \in WatchResults(fs, <<new_path[1]>>) :
       IF ok
       THEN /\ hook' = Register(hook, nextConn)
            /\ connected' = connected \cup {nextConn}
            /\ UNCHANGED <<bgThread, eventThread>>
       ELSE /\ bgThread' = "panicked_watch"
            /\ eventThread' = IF eventThread = "running" THEN "stopped" ELSE eventThread
            /\ hook' = NoConn
            /\ connected' = {}
  /\ connectedAt' = [connectedAt EXCEPT ![nextConn] = writes]
  /\ nextConn' = nextConn + 1
  /\ UNCHANGED <<fs, envWsPort, mainThread, new_path, source, boundAddr, inbox,
                 writes, startRootExists, request, response>>
  /\ UNCHANGED counters

\* Disconnect that also removes the handler of the closed connection.
Disconnect_eager(c) ==
  /\ Alive
  /\ bgThread = "listening"
  /\ c \in connected
  /\ connected' = connected \ {c}
  /\ hook' = IF hook = c THEN NoConn ELSE hook
  /\ UNCHANGED <<fs, envWsPort, mainThread, bgThread, eventThread, new_path,
                 source, boundAddr, nextConn, inbox, writes, connectedAt,
                 startRootExists, request, response>>
  /\ UNCHANGED counters

\* A client closes its connection; the server side does nothing (lib.rs:87).
Disconnect(c) ==
  /\ Alive
  /\ bgThread = "listening"
  /\ c \in connected
  /\ connected' = connected \ {c}
  /\ UNCHANGED <<fs, envWsPort, mainThread, bgThread, eventThread, new_path,
                 source, boundAddr, nextConn, hook, inbox, writes, connectedAt,
                 startRootExists, request, response>>
  /\ UNCHANGED counters

\* The kinds of DebouncedEvent, other than Write, that report a change.
OtherKinds == {"Create", "Chmod", "Remove", "Rename"}

\* lib.rs:83: send "Reload" to the connection the handler holds. A send to
\* a closed connection either is dropped or fails, and the unwrap then
\* panics the context that runs the handler.
SendReload ==
  IF hook \in connected
  THEN /\ inbox' = send(inbox, hook)
       /\ UNCHANGED eventThread
  ELSE /\ \E sent \in BOOLEAN :
            eventThread' = IF sent THEN eventThread ELSE "panicked"
       /\ UNCHANGED inbox

\* The handler sending on an event of any kind.
Handler_any(event) ==
  IF hook # NoConn /\ eventThread = "running"
  THEN SendReload
  ELSE UNCHANGED <<inbox, eventThread>>

\* The handler of lib.rs:80-85, run by the watcher on an event when a
\* handler is registered: it sends on a DebouncedEvent::Write only.
Handler(event) ==
  IF hook # NoConn /\ eventThread = "running" /\ event = "Write"
  THEN SendReload
  ELSE UNCHANGED <<inbox, eventThread>>

\* A file under the source root is written and the watcher reports it.
WriteEvent(rel, bytes) ==
  /\ Alive
  /\ writes < MaxWrites
  /\ fs[Path(rel)].kind = "file"
  /\ fs' = [fs EXCEPT ![Path(rel)] = File(bytes)]
  /\ writes' = writes + 1
  /\ Handler("Write")
  /\ UNCHANGED <<envWsPort, mainThread, bgThread, new_path, source, boundAddr,
                 connected, nextConn, hook, connectedAt, startRootExists,
                 request, response>>
  /\ UNCHANGED counters

\* The watcher reports an event of another kind (for a file the model does
\* not populate, or a change of metadata only).
FsEvent(kind) ==
  /\ Alive
  /\ events < MaxEvents
  /\ is_dir(fs, <<WatchPath>>)
  /\ events' = events + 1
  /\ Handler(kind)
  /\ UNCHANGED <<fs, envWsPort, mainThread, bgThread, new_path, source,
                 boundAddr, connected, nextConn, hook, writes, connectedAt,
                 startRootExists, clientMsgs, request, response>>

\* A client message answered by a reply to the client.
ClientMessage_echo(c) ==
  /\ Alive
  /\ bgThread = "listening"
  /\ c \in connected
  /\ clientMsgs < MaxMsgs
  /\ clientMsgs' = clientMsgs + 1
  /\ inbox' = [inbox EXCEPT ![c] = Append(@, "Echo")]
  /\ UNCHANGED <<fs, envWsPort, mainThread, bgThread, eventThread, new_path,
                 source, boundAddr, connected, nextConn, hook, writes,
                 connectedAt, startRootExists, events, request, response>>

\* lib.rs:87: the message handler of a connection is |_| Ok(()): a message
\* from a client is dropped.
ClientMessage(c) ==
  /\ Alive
  /\ bgThread = "listening"
  /\ c \in connected
  /\ clientMsgs < MaxMsgs
  /\ clientMsgs' = clientMsgs + 1
  /\ UNCHANGED <<fs, envWsPort, mainThread, bgThread, eventThread, new_path,
                 source, boundAddr, connected, nextConn, hook, inbox, writes,
                 connectedAt, startRootExists, events, request, response>>

\* The source root is removed while the server runs.
RemoveRoot ==
  /\ Alive
  /\ is_dir(fs, <<WatchPath>>)
  /\ fs' = EmptyFS
  /\ UNCHANGED <<envWsPort, serverVars, request, response>>

----------------------------------------------------------------------------
(* HTTP requests: lib.rs:111-177 *)

\* GET / : lib.rs:111-114
index ==
  /\ mainThread = "serving"
  /\ request' = << <<>> >>
  /\ response' = static_files(<<>>, source[1], fs, envWsPort)
  /\ UNCHANGED <<fs, envWsPort, serverVars>>

\* GET /<path..> answered only while a push-channel client is connected.
StaticFilesRequest_stateful(rel) ==
  /\ mainThread = "serving"
  /\ request' = << <<rel>> >>
  /\ response' = IF connected = {} THEN NotFound
                 ELSE static_files(<<rel>>, source[1], fs, envWsPort)
  /\ UNCHANGED <<fs, envWsPort, serverVars>>

\* GET /<path..> : lib.rs:116-177
StaticFilesRequest(rel) ==
  /\ mainThread = "serving"
  /\ request' = << <<rel>> >>
  /\ response' = static_files(<<rel>>, source[1], fs, envWsPort)
  /\ UNCHANGED <<fs, envWsPort, serverVars>>

----------------------------------------------------------------------------
(* Specifications *)

Next ==
  \/ Watch
  \/ Launch
  \/ HotwatchNew
  \/ WsListen
  \/ Connect
  \/ \E c \in Conns : Disconnect(c)
  \/ \E rel \in RelPaths, bytes \in Contents : WriteEvent(rel, bytes)
  \/ \E kind \in OtherKinds : FsEvent(kind)
  \/ \E c \in Conns : ClientMessage(c)
  \/ RemoveRoot
  \/ index
  \/ \E rel \in RequestPaths : StaticFilesRequest(rel)

Spec == Init /\ [][Next]_vars

\* The static responder alone, over every directory tree of the model.
InitFiles ==
  /\ fs \in {f \in [AllPaths -> {Missing, Denied, Dir} \cup Files] : WellFormed(f)}
  /\ envWsPort \in EnvValues
  /\ mainThread = "serving"
  /\ bgThread = "listening"
  /\ eventThread = "running"
  /\ new_path = <<WatchPath>>
  /\ source = <<WatchPath>>
  /\ boundAddr = <<ws_url(envWsPort)>>
  /\ connected = {}
  /\ nextConn = 1
  /\ hook = NoConn
  /\ inbox = [c \in Conns |-> <<>>]
  /\ writes = 0
  /\ connectedAt = [c \in Conns |-> 0]
  /\ startRootExists = is_dir(fs, <<WatchPath>>)
  /\ events = 0
  /\ clientMsgs = 0
  /\ request = NoRequest
  /\ response = NoResponse

NextFiles ==
  \/ index
  \/ \E rel \in RequestPaths : StaticFilesRequest(rel)

SpecFiles == InitFiles /\ [][NextFiles]_vars

----------------------------------------------------------------------------
(* Properties *)

\* A step that is a DebouncedEvent::Write.
IsWrite == writes' = writes + 1

\* C1: every write event delivers "Reload" to every client connected at the
\* time of the event.
C1_AllConnectedReceive ==
  [][IsWrite => \A c \in connected : inbox'[c] = Append(inbox[c], "Reload")]_vars

\* C2: with two clients accepted and one of them gone, a write event delivers
\* "Reload" to the remaining client and the failed send ends neither the
\* handler context nor the WebSocket thread.
C2_RemainingClientReceives ==
  [][(IsWrite /\ nextConn = 3 /\ Cardinality(connected) = 1)
       => /\ \A c \in connected : inbox'[c] = Append(inbox[c], "Reload")
          /\ eventThread' = "running"
          /\ bgThread' = "listening"]_vars

\* C3: with exactly one client connected, a write event delivers exactly one
\* "Reload" to that client.
C3_ExactlyOneReload ==
  [][(IsWrite /\ Cardinality(connected) = 1)
       => \A c \in connected : Len(inbox'[c]) = Len(inbox[c]) + 1]_vars

Snippet == <<RELOAD_SCRIPT[1], unwrap_or(envWsPort, WS_PORT_DEFAULT), RELOAD_SCRIPT[3]>>

\* C5: when the request resolves to a readable file, the body is the file's
\* bytes followed by the reload script with the configured port if and only
\* if the content type is HTML, and is the file's bytes otherwise.
C5_InjectIffHtml ==
  request # NoRequest =>
    LET file == read(fs, resolve(request[1], source[1], fs))
    IN file # <<>> =>
         /\ response.status = 200
         /\ (response.content_type = HTML) <=> (response.body = file[1] \o Snippet)
         /\ response.content_type # HTML => response.body = file[1]

\* A non-empty file with an upper-case HTML extension was served with the
\* script, or a non-empty stylesheet without it.
C5_Witness ==
  \/ /\ request = << <<<<PageHTM>>>> >>
     /\ response.content_type = HTML
     /\ Len(response.body) = 1 + Len(Snippet)
  \/ /\ request = << <<<<StyleCss>>>> >>
     /\ response.content_type = "text/css"
     /\ Len(response.body) = 1

\* C6: when the WebSocket port cannot be bound the process does not go on
\* serving HTTP.
C6_BindFailureIsFatal ==
  ~(bgThread = "panicked_listen" /\ mainThread = "serving")

\* C7: when the source root does not exist at the call of watch() the
\* process never serves HTTP.
C7_MissingRootIsFatal ==
  mainThread = "serving" => startRootExists

\* C8: when installing the watch fails on a connection, only the spawned
\* thread ends: an HTTP listener that is serving stays serving, and from
\* then on no message is delivered to any client.
C8_WatchFailureKeepsHttp ==
  [][bgThread' = "panicked_watch"
       => /\ mainThread = "serving" => mainThread' = "serving"
          /\ inbox' = inbox]_vars

\* The root was removed after startup, a connection then failed to install
\* the watch, and an HTTP request was answered with the listener serving.
C8_Witness ==
  /\ bgThread = "panicked_watch"
  /\ startRootExists
  /\ mainThread = "serving"
  /\ request # NoRequest
  /\ response.status = 404

\* C9: when the source root has an entry named index.html, GET / gets the
\* response GET /index.html gets.
C9_IndexEquivalence ==
  (request = << <<>> >> /\ exists(fs, Path(<<IndexHtml>>)))
    => response = static_files(<< <<IndexHtml>> >>, source[1], fs, envWsPort)

\* C10: a request whose file cannot be read is answered with 404, no
\* response is a server error, and the listener stays serving.
C10_UnreadableIsNotFound ==
  request # NoRequest =>
    /\ read(fs, resolve(request[1], source[1], fs)) = <<>> => response.status = 404
    /\ response.status \in {200, 404}
    /\ mainThread = "serving"

\* A request for an existing file that may not be read was answered 404.
C10_Witness ==
  /\ request # NoRequest
  /\ resolve(request[1], source[1], fs) \in DOMAIN fs
  /\ fs[resolve(request[1], source[1], fs)].kind = "denied"
  /\ response.status = 404

\* The target computed from the request alone: index.html in the source
\* root without a request path, the joined path with one.
Computed(req) ==
  IF req = <<>> THEN Path(<<IndexHtml>>) ELSE Path(req[1])

\* C11: for a request with or without a path, when the computed target is a
\* directory whose index.html can be read, the response is that file with
\* status 200, type HTML and the reload script appended.
C11_DirectoryIndex ==
  request # NoRequest =>
    LET inner == read(fs, join(Computed(request[1]), <<IndexHtml>>))
    IN (is_dir(fs, Computed(request[1])) /\ inner # <<>>)
         => response = Ok(HTML, inner[1] \o Snippet)

\* C12: a readable file whose extension is absent or not in the table is
\* served with status 200, type text/plain and its bytes unchanged.
C12_UnknownExtensionIsPlain ==
  (request # NoRequest /\ request[1] # <<>>) =>
    LET path == resolve(request[1], source[1], fs)
        file == read(fs, path)
    IN (file # <<>> /\ extension(path) \in {"", "xyz"})
         => response = [status |-> 200, content_type |-> "text/plain", body |-> file[1]]

\* A non-empty file with an extension outside the table was served as text.
C12_Witness ==
  /\ request = << <<<<DataXyz>>>> >>
  /\ response.status = 200
  /\ response.content_type = "text/plain"
  /\ Len(response.body) = 1

\* C13: every message delivered to a client is "Reload", and a message from
\* a client changes neither the registration, the connections, the threads
\* nor any client's messages.
C13_ServerToClientOnly ==
  /\ [](\A c \in Conns : \A i \in 1 .. Len(inbox[c]) : inbox[c][i] = "Reload")
  /\ [][clientMsgs' # clientMsgs
          => UNCHANGED <<hook, connected, nextConn, inbox, bgThread, eventThread>>]_vars

\* A client sent a message and a client has received a "Reload".
C13_Witness ==
  /\ clientMsgs = 1
  /\ \E c \in connected : Len(inbox[c]) = 1

C16_LazyDisconnect ==
  [][(connected' # connected /\ connected' \subseteq connected /\ nextConn' = nextConn)
       => UNCHANGED <<hook, bgThread, eventThread, inbox>>]_vars

\* The handler still holds the connection of a client that has gone.
C16_Witness ==
  /\ hook # NoConn
  /\ hook \notin connected
  /\ bgThread = "listening"
  /\ eventThread = "running"

\* C17: a step that answers an HTTP request changes nothing of the server
\* but the request and the response, and the response is a function of the
\* request path, the source root, the filesystem and WS_PORT.
C17_StatelessRequests ==
  [][(request' # NoRequest /\ (request' # request \/ response' # response))
       => /\ UNCHANGED <<serverVars, fs, envWsPort>>
          /\ response' = static_files(request'[1], source[1], fs, envWsPort)]_vars

\* A request was answered with a client connected and a write event past.
C17_Witness ==
  /\ request # NoRequest
  /\ request[1] # <<>>
  /\ response.status = 200
  /\ connected # {}
  /\ writes > 0

\* C18: the port of the address the WebSocket server is bound to and the
\* port in the script of every HTML response are the value of WS_PORT, or
\* 8001 when it is unset.
C18_PortsAgree ==
  LET port == IF envWsPort = <<>> THEN "8001" ELSE envWsPort[1]
  IN /\ boundAddr # <<>> => boundAddr[1][2] = port
     /\ (response.status = 200 /\ response.content_type = HTML)
          => response.body[Len(response.body) - 1] = port

\* With WS_PORT set, the server is bound and an HTML response was sent.
C18_Witness ==
  /\ envWsPort = <<"9000">>
  /\ boundAddr # <<>>
  /\ response.status = 200
  /\ response.content_type = HTML

\* C19: the path of the registrations and the path the responder resolves
\* against are both the argument of watch(), and neither changes once set.
C19_SameRoot ==
  /\ [](/\ new_path # <<>> => new_path = <<WatchPath>>
        /\ source # <<>> => source = new_path)
  /\ [][/\ new_path # <<>> => new_path' = new_path
        /\ source # <<>> => source' = source]_vars

\* A handler is registered and a request was answered.
C19_Witness ==
  /\ hook # NoConn
  /\ request # NoRequest
  /\ source = new_path

\* The connection accepted last.
Latest == nextConn - 1

\* C20: while the WebSocket server runs, the registered handler holds the
\* connection accepted last; a write event delivers nothing to any other
\* connection, and delivers "Reload" to the last one when it is open and the
\* handler runs.
C20_LatestOnly ==
  /\ []((bgThread = "listening" /\ nextConn > 1) => hook = Latest)
  /\ [][IsWrite =>
          /\ \A c \in Conns : c # Latest => inbox'[c] = inbox[c]
          /\ (bgThread = "listening" /\ Latest \in connected /\ eventThread = "running")
               => inbox'[Latest] = Append(inbox[Latest], "Reload")]_vars

\* Two clients were connected before a write event; only the second one
\* received it.
C20_Witness ==
  /\ connected = {1, 2}
  /\ connectedAt[2] = 0
  /\ writes = 1
  /\ inbox[1] = <<>>
  /\ inbox[2] = <<"Reload">>

====
